---- MODULE Spec2Model ----
(***************************************************************************)
(* Model of omero_zarr/masks.py: conversion of OMERO mask shapes into      *)
(* label arrays of a zarr group (styles "labeled", "split" and "6d").      *)
(*                                                                         *)
(* Python's None (an unset theT/theC/theZ, an unset fillColor) is the      *)
(* integer -1, since real plane indices and colours are >= 0 here.         *)
(* A numpy boolean is 0/1.  An array is a record [shape, dtype, data,      *)
(* attrs, color]: data maps every leading index tuple (<<t,c,z>>, or       *)
(* <<g,t,c,z>> in the 6d style) to a YX plane, a function from <<y,x>> to  *)
(* the pixel value; attrs is the set of attribute keys the array carries   *)
(* and color the value of its "color" attribute.                           *)
(***************************************************************************)
EXTENDS Integers, Sequences, FiniteSets, TLC

VARIABLES saver, store, call, history

vars == <<saver, store, call, history>>

None == -1
NoErr == "none"

\* ------------------------------------------------------------------ bounds
\* The image the MaskSaver is built for (image.getSizeT() ... getSizeX()).
SizeT == 2
SizeC == 1
SizeZ == 2
SizeY == 3
SizeX == 3

\* image_shape of MaskSaver.__init__
image_shape == <<SizeT, SizeC, SizeZ, SizeY, SizeX>>

\* DIMENSION_ORDER: position of an axis in the 5-tuple (1-based here).
DIMENSION_ORDER == [d \in {"T", "C", "Z", "Y", "X"} |->
    CASE d = "T" -> 1 [] d = "C" -> 2 [] d = "Z" -> 3 [] d = "Y" -> 4 [] d = "X" -> 5]

\* MASK_DTYPE_SIZE: the bit depths that have a dtype; 1 is numpy bool, the
\* others are signed integers of that width.
MASK_DTYPE_SIZE == {1, 8, 16, 32, 64}

Min(a, b) == IF a < b THEN a ELSE b

RECURSIVE Pow2(_)
Pow2(n) == IF n = 0 THEN 1 ELSE 2 * Pow2(n - 1)

\* A value stored into an array of the given dtype: a boolean array keeps the
\* truth value, a signed integer array wraps to its width.  (Widths 32 and 64
\* are beyond every value this model builds, so they store the value as is.)
astype(v, dtype) ==
    IF dtype = 1 THEN (IF v # 0 THEN 1 ELSE 0)
    ELSE IF dtype >= 32 THEN v
    ELSE ((v + Pow2(dtype - 1)) % Pow2(dtype)) - Pow2(dtype - 1)

\* ------------------------------------------------------------ bit decoding
\* np.unpackbits(np.fromstring(mask_packed, uint8)): 8 bits per byte, most
\* significant bit first.
unpackbits(bytes) ==
    [i \in 1..(8 * Len(bytes)) |->
        (bytes[((i - 1) \div 8) + 1] \div Pow2(7 - ((i - 1) % 8))) % 2]

\* Faulty variant: a buffer that is too short is padded with zero bits.
_mask_to_binim_yx_padded(mask, dtype) ==
    LET w == mask.width
        h == mask.height
        bits == unpackbits(mask.bytes)
    IN  [err |-> NoErr,
         binim |-> [p \in (0..(h - 1)) \X (0..(w - 1)) |->
                       IF p[1] * w + p[2] + 1 <= Len(bits)
                       THEN astype(bits[p[1] * w + p[2] + 1], dtype) ELSE 0]]

\* np.reshape(binarray[: (w * h)], (h, w)): the slice keeps at most w*h bits;
\* reshape raises ValueError unless exactly h*w elements are left.
_mask_to_binim_yx(mask, dtype) ==
    LET w == mask.width
        h == mask.height
        binarray == [i \in DOMAIN unpackbits(mask.bytes) |->
                        astype(unpackbits(mask.bytes)[i], dtype)]
        cut == SubSeq(binarray, 1, Min(w * h, Len(binarray)))
    IN  IF Len(cut) # h * w
        THEN [err |-> "ValueError", binim |-> <<>>]
        ELSE [err |-> NoErr,
              binim |-> [p \in (0..(h - 1)) \X (0..(w - 1)) |->
                            cut[p[1] * w + p[2] + 1]]]

\* ------------------------------------------------------- index broadcasting
Range(n) == [i \in 1..n |-> i - 1]

\* Faulty variant: an undeclared coordinate on a kept axis goes to plane 0 only.
_get_indices_no_broadcast(ignored_dimensions, d, d_value, d_size) ==
    IF d \in ignored_dimensions THEN <<0>>
    ELSE IF d_value # None THEN <<d_value>>
    ELSE <<0>>

_get_indices(ignored_dimensions, d, d_value, d_size) ==
    IF d \in ignored_dimensions THEN <<0>>
    ELSE IF d_value # None THEN <<d_value>>
    ELSE Range(d_size)

\* The (i_t, i_c, i_z) triples of the three nested loops, in loop order.
PlaneLoop(ignored_dimensions, mask, mask_shape) ==
    LET ts == _get_indices(ignored_dimensions, "T", mask.theT, mask_shape[1])
        cs == _get_indices(ignored_dimensions, "C", mask.theC, mask_shape[2])
        zs == _get_indices(ignored_dimensions, "Z", mask.theZ, mask_shape[3])
        n == Len(ts) * Len(cs) * Len(zs)
    IN  [i \in 1..n |->
            <<ts[((i - 1) \div (Len(cs) * Len(zs))) + 1],
              cs[(((i - 1) \div Len(zs)) % Len(cs)) + 1],
              zs[((i - 1) % Len(zs)) + 1]>>]

\* ------------------------------------------------------------------ arrays
RECURSIVE IndexTuples(_, _)
IndexTuples(shape, k) ==
    IF k = 0 THEN {<<>>}
    ELSE {Append(p, i) : p \in IndexTuples(shape, k - 1), i \in 0..(shape[k] - 1)}

\* create_dataset(name, shape=..., dtype=..., overwrite=True): a fresh array
\* of zeros without attributes.
create_dataset(shape, dtype) ==
    [shape |-> shape,
     dtype |-> dtype,
     data |-> [k \in IndexTuples(shape, Len(shape) - 2) |->
                 [p \in (0..(shape[Len(shape) - 1] - 1)) \X (0..(shape[Len(shape)] - 1))
                     |-> 0]],
     attrs |-> {},
     color |-> <<>>]

\* Whether <<y,x>> lies in the rectangle [y0 : y0+h, x0 : x0+w].
InRect(p, mask) ==
    /\ mask.y <= p[1] /\ p[1] < mask.y + mask.height
    /\ mask.x <= p[2] /\ p[2] < mask.x + mask.width

\* The value of the decoded plane at image pixel p of the rectangle.
BinAt(binim, p, mask) == binim[<<p[1] - mask.y, p[2] - mask.x>>]

\* Faulty variant: the guard looks at the rectangle, not at the bits set in it.
OverlapsBox(arr, key, mask, binim) ==
    \E p \in DOMAIN arr.data[key] : InRect(p, mask) /\ arr.data[key][p] # 0

\* np.any(np.logical_and(labels[key, y:y+h, x:x+w].astype(bool), binim_yx))
Overlaps(arr, key, mask, binim) ==
    \E p \in DOMAIN arr.data[key] :
        InRect(p, mask) /\ arr.data[key][p] # 0 /\ BinAt(binim, p, mask) # 0

\* arr[key, y:y+h, x:x+w] += binim * factor, stored in the array's dtype.
AddRegion(arr, key, mask, binim, factor) ==
    [arr EXCEPT !.data[key] =
        [p \in DOMAIN @ |->
            IF InRect(p, mask)
            THEN astype(@[p] + BinAt(binim, p, mask) * factor, arr.dtype)
            ELSE @[p]]]

\* ------------------------------------------------------- masks_to_labels
\* The running state of a compositing call: the destination array, the
\* exception raised so far (NoErr: none), the ordinal `count` of the ROI being
\* written when it was raised, the fillColors dictionary, and the list of
\* executed `+=` statements, each <<count, index of the mask in its ROI, key>>.
StartRun(arr) ==
    [arr |-> arr, err |-> NoErr, err_count |-> None, fillColors |-> <<>>,
     writes |-> <<>>]

Raise(st, err, count) == [st EXCEPT !.err = err, !.err_count = count]

\* fillColors[count + 1] = unwrap(mask.fillColor), when the mask has one.
SetColor(fillColors, mask, count) ==
    IF mask.fillColor = None THEN fillColors
    ELSE [i \in (DOMAIN fillColors) \cup {count + 1} |->
            IF i = count + 1 THEN mask.fillColor ELSE fillColors[i]]

\* The in-place addition of an int64 product into a boolean array is refused
\* by numpy's same-kind casting rule.
LabelAddRefused(arr) == arr.dtype = 1

\* Faulty variant: the object id is the 0-based ordinal.
LabelPlaneIdFromZero(st, mask, m, binim, count, key, check_overlaps) ==
    IF check_overlaps /\ Overlaps(st.arr, key, mask, binim)
    THEN Raise(st, "OverlapError", count)
    ELSE IF LabelAddRefused(st.arr)
    THEN Raise(st, "UFuncTypeError", count)
    ELSE [st EXCEPT !.arr = AddRegion(st.arr, key, mask, binim, count),
                    !.writes = Append(@, <<count, m, key>>)]

\* Body of the innermost loop of masks_to_labels, for one (i_t, i_c, i_z).
LabelPlane(st, mask, m, binim, count, key, check_overlaps) ==
    IF check_overlaps /\ Overlaps(st.arr, key, mask, binim)
    THEN Raise(st, "OverlapError", count)
    ELSE IF LabelAddRefused(st.arr)
    THEN Raise(st, "UFuncTypeError", count)
    ELSE [st EXCEPT !.arr = AddRegion(st.arr, key, mask, binim, count + 1),
                    !.writes = Append(@, <<count, m, key>>)]

RECURSIVE LabelPlanes(_, _, _, _, _, _, _, _)
LabelPlanes(st, mask, m, binim, count, planes, i, check_overlaps) ==
    IF i > Len(planes) \/ st.err # NoErr THEN st
    ELSE LabelPlanes(LabelPlane(st, mask, m, binim, count, planes[i], check_overlaps),
                     mask, m, binim, count, planes, i + 1, check_overlaps)

\* Body of `for mask in shapes` of masks_to_labels; dec is what
\* _mask_to_binim_yx returned or raised.
LabelDecoded(st, mask, m, dec, count, mask_shape, ignored_dimensions, check_overlaps) ==
    IF dec.err # NoErr THEN Raise(st, dec.err, count)
    ELSE LabelPlanes(st, mask, m, dec.binim, count,
                     PlaneLoop(ignored_dimensions, mask, mask_shape), 1,
                     check_overlaps)

LabelMask(st, mask, m, count, mask_shape, ignored_dimensions, check_overlaps) ==
    LabelDecoded([st EXCEPT !.fillColors = SetColor(@, mask, count)], mask, m,
                 _mask_to_binim_yx(mask, st.arr.dtype), count, mask_shape,
                 ignored_dimensions, check_overlaps)

RECURSIVE LabelShapes(_, _, _, _, _, _, _)
LabelShapes(st, shapes, m, count, mask_shape, ignored_dimensions, check_overlaps) ==
    IF m > Len(shapes) \/ st.err # NoErr THEN st
    ELSE LabelShapes(LabelMask(st, shapes[m], m, count, mask_shape,
                               ignored_dimensions, check_overlaps),
                     shapes, m + 1, count, mask_shape, ignored_dimensions,
                     check_overlaps)

RECURSIVE LabelRois(_, _, _, _, _, _)
LabelRois(st, masks, count, mask_shape, ignored_dimensions, check_overlaps) ==
    IF count >= Len(masks) \/ st.err # NoErr THEN st
    ELSE LabelRois(LabelShapes(st, masks[count + 1], 1, count, mask_shape,
                               ignored_dimensions, check_overlaps),
                   masks, count + 1, mask_shape, ignored_dimensions, check_overlaps)

\* masks_to_labels(masks, mask_shape, ignored_dimensions, check_overlaps,
\* labels): `labels` is the array created by the caller.  The assertions on
\* the shape come first; the colours are attached after the full pass only.
masks_to_labels(masks, mask_shape, ignored_dimensions, check_overlaps, labels) ==
    IF \/ labels.shape # mask_shape
       \/ \E d \in ignored_dimensions : labels.shape[DIMENSION_ORDER[d]] # 1
    THEN Raise(StartRun(labels), "AssertionError", None)
    ELSE LET st == LabelRois(StartRun(labels), masks, 0, mask_shape,
                             ignored_dimensions, check_overlaps)
         IN  IF st.err # NoErr THEN st
             ELSE [st EXCEPT !.arr.attrs = @ \cup {"color"},
                             !.arr.color = st.fillColors]

\* ----------------------------------------------------------- stack_masks
\* Faulty variant: every group is added into the first slice.
StackPlaneFirstSlice(st, mask, m, binim, count, key) ==
    [st EXCEPT !.arr = AddRegion(st.arr, <<0>> \o key, mask, binim, 1),
               !.writes = Append(@, <<count, m, key>>)]

\* Body of the innermost loop of stack_masks: check_overlaps is not consulted.
StackPlane(st, mask, m, binim, count, key) ==
    [st EXCEPT !.arr = AddRegion(st.arr, <<count>> \o key, mask, binim, 1),
               !.writes = Append(@, <<count, m, key>>)]

RECURSIVE StackPlanes(_, _, _, _, _, _, _)
StackPlanes(st, mask, m, binim, count, planes, i) ==
    IF i > Len(planes) \/ st.err # NoErr THEN st
    ELSE StackPlanes(StackPlane(st, mask, m, binim, count, planes[i]),
                     mask, m, binim, count, planes, i + 1)

\* Body of `for mask in shapes` of stack_masks.
StackDecoded(st, mask, m, dec, count, mask_shape, ignored_dimensions) ==
    IF dec.err # NoErr THEN Raise(st, dec.err, count)
    ELSE StackPlanes(st, mask, m, dec.binim, count,
                     PlaneLoop(ignored_dimensions, mask, mask_shape), 1)

StackMask(st, mask, m, count, mask_shape, ignored_dimensions) ==
    StackDecoded(st, mask, m, _mask_to_binim_yx(mask, st.arr.dtype), count,
                 mask_shape, ignored_dimensions)

RECURSIVE StackShapes(_, _, _, _, _, _)
StackShapes(st, shapes, m, count, mask_shape, ignored_dimensions) ==
    IF m > Len(shapes) \/ st.err # NoErr THEN st
    ELSE StackShapes(StackMask(st, shapes[m], m, count, mask_shape, ignored_dimensions),
                     shapes, m + 1, count, mask_shape, ignored_dimensions)

RECURSIVE StackRois(_, _, _, _, _)
StackRois(st, masks, count, mask_shape, ignored_dimensions) ==
    IF count >= Len(masks) \/ st.err # NoErr THEN st
    ELSE StackRois(StackShapes(st, masks[count + 1], 1, count, mask_shape,
                               ignored_dimensions),
                   masks, count + 1, mask_shape, ignored_dimensions)

\* stack_masks(masks, mask_shape, target, ignored_dimensions, check_overlaps)
stack_masks(masks, mask_shape, target, ignored_dimensions, check_overlaps) ==
    IF target.shape[1] = 0
    THEN Raise(StartRun(target), "No target", None)
    ELSE IF \/ target.shape # <<Len(masks)>> \o mask_shape
       \/ \E d \in ignored_dimensions : target.shape[DIMENSION_ORDER[d] + 1] # 1
    THEN Raise(StartRun(target), "AssertionError", None)
    ELSE StackRois(StartRun(target), masks, 0, mask_shape, ignored_dimensions)

\* ------------------------------------------------------ dimension collapse
\* unique_dims and ignored_dimensions of MaskSaver.save.
AllMasks(masks) == UNION {{masks[r][m] : m \in DOMAIN masks[r]} : r \in DOMAIN masks}

unique_dims(masks) ==
    [d \in {"T", "C", "Z"} |->
        {(CASE d = "T" -> mk.theT [] d = "C" -> mk.theC [] d = "Z" -> mk.theZ) :
            mk \in AllMasks(masks)}]

IgnoredDimensions(masks) == {d \in {"T", "C", "Z"} : unique_dims(masks)[d] = {None}}

\* mask_shape as save means to build it: image_shape with the ignored
\* dimensions set to 1.
CollapsedShape(ignored_dimensions) ==
    [i \in 1..5 |->
        IF \E d \in ignored_dimensions : DIMENSION_ORDER[d] = i
        THEN 1 ELSE image_shape[i]]


\* ---------------------------------------------------------- MaskSaver.save
\* The zarr file of the image: whether the group self.path exists, the arrays
\* of the group by name, and the group's "labels" attribute (has_labels:
\* whether the attribute is there).
EmptyStore == [group |-> FALSE, arrays |-> <<>>, labels |-> <<>>, has_labels |-> FALSE]

\* The local name mask_shape that was never bound.
Unbound == <<>>

\* mask_shape is bound inside `for d in ignored_dimensions`, so it is bound
\* only when the loop body runs.
bound_mask_shape(ignored_dimensions) ==
    IF ignored_dimensions = {} THEN Unbound ELSE CollapsedShape(ignored_dimensions)

\* out_labels[name] = array
PutArray(st, name, arr) ==
    [st EXCEPT !.arrays = (name :> arr) @@ @]

\* Faulty variant: the name is appended without looking for it in the list.
register_label_always(st, name) ==
    [st EXCEPT !.labels = Append(@, name), !.has_labels = TRUE]

\* attrs = out_labels.attrs.asdict(); append name to attrs["labels"] unless it
\* is there, or start the list; out_labels.attrs.update(attrs).
register_label(st, name) ==
    IF st.has_labels
    THEN (IF \E i \in DOMAIN st.labels : st.labels[i] = name
          THEN st
          ELSE [st EXCEPT !.labels = Append(@, name)])
    ELSE [st EXCEPT !.labels = <<name>>, !.has_labels = TRUE]

SaveResult(st, err, err_count, ign, created) ==
    [store |-> st, err |-> err, err_count |-> err_count,
     ignored_dimensions |-> ign, created |-> created]

\* The end of save, once the compositing call has returned or raised: an
\* exception leaves the array in the group as it was written so far and skips
\* the attributes; otherwise the array gets its "image" attribute and the
\* name goes to the "labels" attribute of the group.
save_epilogue(opened, name, ign, run) ==
    IF run.err # NoErr
    THEN SaveResult(PutArray(opened, name, run.arr), run.err, run.err_count,
                    ign, TRUE)
    ELSE SaveResult(
            register_label(
                PutArray(opened, name, [run.arr EXCEPT !.attrs = @ \cup {"image"}]),
                name),
            NoErr, None, ign, TRUE)

\* create_dataset and the compositing call of the saver's style.
save_composite(sv, masks, mask_shape, ign) ==
    IF sv.style \in {"labeled", "split"}
    THEN masks_to_labels(masks, mask_shape, ign, TRUE,
                         create_dataset(mask_shape, sv.dtype))
    ELSE stack_masks(masks, mask_shape,
                     create_dataset(<<Len(masks)>> \o mask_shape, sv.dtype),
                     ign, TRUE)

\* save from the opening of the group on.
save_in_group(sv, opened, masks, name, ign, mask_shape) ==
    IF mask_shape = Unbound
    THEN SaveResult(opened, "UnboundLocalError", None, ign, FALSE)
    ELSE save_epilogue(opened, name, ign,
                       save_composite(sv, masks, mask_shape, ign))

\* save from the check of the source image on.
save_checked(sv, st, masks, name, ign) ==
    IF ~sv.linkable
    THEN SaveResult(st, "AssertionError", None, ign, FALSE)
    ELSE save_in_group(sv, [st EXCEPT !.group = TRUE], masks, name, ign,
                       bound_mask_shape(ign))

\* MaskSaver.save(masks, name) of the saver sv on the store st: the store it
\* leaves and the exception it raises (NoErr: none).
save(sv, st, masks, name) ==
    save_checked(sv, st, masks, name, IgnoredDimensions(masks))

\* ------------------------------------------------------ image_masks_to_zarr
\* isinstance(s, MaskI) over roi.copyShapes(); ROIs without a mask are left
\* out.  The result is the dict `masks` in insertion order: <<roi id, shapes>>.
IsMaskI(s) == s.type = "MaskI"

RECURSIVE collect_masks(_)
collect_masks(rois) ==
    IF rois = <<>> THEN <<>>
    ELSE LET mask_shapes == SelectSeq(Head(rois).shapes, IsMaskI)
         IN  (IF Len(mask_shapes) > 0
              THEN <<[id |-> Head(rois).id, shapes |-> mask_shapes]>>
              ELSE <<>>) \o collect_masks(Tail(rois))

\* int(text): the integer a decimal text stands for, None when it is none
\* (texts of the numbers up to 64 are all this model reads).
int(text) ==
    IF \E i \in 0..64 : ToString(i) = text
    THEN CHOOSE i \in 0..64 : ToString(i) = text
    ELSE None

\* dtype = MASK_DTYPE_SIZE[int(args.label_bits)], 64 for "labeled" with "1".
select_dtype(args) ==
    IF args.style = "labeled" /\ args.label_bits = "1" THEN 64
    ELSE int(args.label_bits)

\* label_map[name] of the defaultdict(list): the entry is created when absent.
touch(label_map, name) ==
    IF \E i \in DOMAIN label_map : label_map[i].name = name
    THEN label_map
    ELSE Append(label_map, [name |-> name, values |-> <<>>])

append_value(label_map, name, value) ==
    [i \in DOMAIN label_map |->
        IF label_map[i].name = name
        THEN [label_map[i] EXCEPT !.values = Append(@, value)]
        ELSE label_map[i]]

\* The shapes of the ROI with that id in roi_map, <<>> when it has no entry.
roi_map_get(masks, id) ==
    LET hit == {i \in DOMAIN masks : masks[i].id = id}
    IN  IF hit = {} THEN <<>> ELSE masks[CHOOSE i \in hit : TRUE].shapes

\* Faulty variant: a parse error discards the entries collected so far.
RECURSIVE parse_label_map_all_or_nothing(_, _, _, _)
parse_label_map_all_or_nothing(lines, i, masks, label_map) ==
    IF i > Len(lines) THEN [label_map |-> label_map, error |-> NoErr]
    ELSE LET fields == lines[i]
         IN  IF Len(fields) # 3 \/ int(fields[3]) = None
                \/ roi_map_get(masks, int(fields[3])) = <<>>
             THEN [label_map |-> <<>>, error |-> "ParseError"]
             ELSE parse_label_map_all_or_nothing(lines, i + 1, masks,
                      append_value(touch(label_map, fields[2]), fields[2],
                                   roi_map_get(masks, int(fields[3]))))

\* The try block over the lines of the label map file (a line is the list of
\* its comma separated fields).  The first exception ends the loop and is
\* caught and printed; label_map keeps what it held at that point, the entry
\* of the bad line's name included when the line had its three fields.
RECURSIVE parse_label_map(_, _, _, _)
parse_label_map(lines, i, masks, label_map) ==
    IF i > Len(lines) THEN [label_map |-> label_map, error |-> NoErr]
    ELSE LET fields == lines[i]
         IN  IF Len(fields) # 3
             THEN [label_map |-> label_map, error |-> "ValueError"]
             ELSE LET touched == touch(label_map, fields[2])
                  IN  IF int(fields[3]) = None
                      THEN [label_map |-> touched, error |-> "ValueError"]
                      ELSE IF roi_map_get(masks, int(fields[3])) = <<>>
                      THEN [label_map |-> touched, error |-> "KeyError"]
                      ELSE parse_label_map(lines, i + 1, masks,
                               append_value(touched, fields[2],
                                            roi_map_get(masks, int(fields[3]))))

\* The groupings image_masks_to_zarr goes on to save, in order: <<name, list
\* of ROIs>>.
groupings_to_save(masks, args) ==
    IF args.style = "split"
    THEN [i \in DOMAIN masks |->
            [name |-> ToString(masks[i].id), values |-> <<masks[i].shapes>>]]
    ELSE IF args.label_map
    THEN parse_label_map(args.lines, 1, masks, <<>>).label_map
    ELSE <<[name |-> args.label_name,
            values |-> [i \in DOMAIN masks |-> masks[i].shapes]]>>

\* Faulty variant: a save that raises is skipped and the loop goes on.
RECURSIVE save_all_keep_going(_, _, _, _, _)
save_kept_going(sv, todo, i, done, r) ==
    save_all_keep_going(sv, r.store, todo, i + 1,
        Append(done, [name |-> todo[i].name, err |-> r.err,
                      arrays |-> r.store.arrays]))

save_all_keep_going(sv, st, todo, i, done) ==
    IF i > Len(todo) THEN [store |-> st, saves |-> done, err |-> NoErr]
    ELSE save_kept_going(sv, todo, i, done,
                         save(sv, st, todo[i].values, todo[i].name))

\* The loop of saver.save calls: an exception of save is not caught, it ends
\* image_masks_to_zarr.  `done` lists the calls made, each with the arrays of
\* the group as it left them; r is what the call for todo[i] returned.
RECURSIVE save_all(_, _, _, _, _)
RECURSIVE save_next(_, _, _, _, _)
save_next(sv, todo, i, made, r) ==
    IF r.err # NoErr
    THEN [store |-> r.store, saves |-> made, err |-> r.err]
    ELSE save_all(sv, r.store, todo, i + 1, made)

save_called(sv, todo, i, done, r) ==
    save_next(sv, todo, i,
              Append(done, [name |-> todo[i].name, err |-> r.err,
                            arrays |-> r.store.arrays]),
              r)

save_all(sv, st, todo, i, done) ==
    IF i > Len(todo) THEN [store |-> st, saves |-> done, err |-> NoErr]
    ELSE save_called(sv, todo, i, done,
                     save(sv, st, todo[i].values, todo[i].name))

\* image_masks_to_zarr(image, args) with the ROIs the ROI service returns:
\* the store it leaves, the saves it made and the exception that ended it.
image_masks_to_zarr(rois, args, st) ==
    LET masks == collect_masks(rois)
        sv == [dtype |-> select_dtype(args), style |-> args.style,
               linkable |-> args.source_ok]
    IN  IF int(args.label_bits) \notin MASK_DTYPE_SIZE
        THEN [store |-> st, saves |-> <<>>, err |-> "KeyError"]
        ELSE IF masks = <<>>
        THEN [store |-> st, saves |-> <<>>, err |-> NoErr]
        ELSE save_all(sv, st, groupings_to_save(masks, args), 1, <<>>)

\* ------------------------------------------------------------------ inputs
\* Mask shapes as the ROI service returns them.  P is the square [0:2, 0:2],
\* Q the square [1:3, 1:3] (it shares pixel (1,1) with P), R the lower row of
\* Q's rectangle (disjoint from P, inside Q), S a 3 x 3 mask whose buffer holds
\* 8 bits only.  P's and Q's byte carries four padding bits.
MaxMasks == 2

MaskShape(t, c, z, x, y, w, h, bytes, color) ==
    [type |-> "MaskI", theT |-> t, theC |-> c, theZ |-> z, x |-> x, y |-> y,
     width |-> w, height |-> h, bytes |-> bytes, fillColor |-> color]

MaskP(t, c, z) == MaskShape(t, c, z, 0, 0, 2, 2, <<240>>, None)
MaskQ(t, c, z) == MaskShape(t, c, z, 1, 1, 2, 2, <<240>>, 255)
MaskR(t, c, z) == MaskShape(t, c, z, 1, 1, 2, 2, <<48>>, None)
MaskS(t, c, z) == MaskShape(t, c, z, 0, 0, 3, 3, <<255>>, None)

LastT == SizeT - 1
LastC == SizeC - 1
LastZ == SizeZ - 1

MaskLib ==
    {MaskP(None, None, None), MaskP(None, None, LastZ), MaskP(LastT, LastC, LastZ),
     MaskQ(None, None, None), MaskQ(LastT, None, None),
     MaskR(None, LastC, None),
     MaskS(None, None, None)}

\* The k-th smallest element of a set of numbers.
Kth(S, k) == CHOOSE s \in S : Cardinality({x \in S : x < s}) = k - 1

\* The flat list of masks cut into consecutive ROIs after the positions `cuts`.
CutIntoRois(flat, cuts) ==
    LET starts == {1} \cup {c + 1 : c \in cuts}
        ends == cuts \cup {Len(flat)}
    IN  [j \in 1..Cardinality(starts) |-> SubSeq(flat, Kth(starts, j), Kth(ends, j))]

\* Every list of ROIs (each a non-empty list of masks of `lib`) that holds at
\* most n masks in all.
Groupings(lib, n) ==
    UNION {{CutIntoRois(flat, cuts) : flat \in [1..k -> lib], cuts \in SUBSET (1..(k - 1))}
              : k \in 1..n}

\* ------------------------------------------------- direct compositing calls
\* The dtypes of the direct calls: boolean, the narrowest and the widest
\* integer.
DirectDTypes == {1, 8, 64}

InitCompose ==
    /\ saver \in [dtype : DirectDTypes, style : {"6d"}, linkable : {TRUE}]
    /\ store = EmptyStore
    /\ call = [op |-> "idle"]
    /\ history = <<>>

\* A direct call: the caller derives ignored_dimensions and mask_shape from
\* the masks as save does, and passes an array it has created.
DirectCall(op, masks, check_overlaps, run) ==
    [op |-> op, masks |-> masks, check_overlaps |-> check_overlaps,
     ignored_dimensions |-> IgnoredDimensions(masks),
     mask_shape |-> CollapsedShape(IgnoredDimensions(masks)),
     run |-> run]

\* masks_to_labels on an array the caller has created with mask_shape.
MasksToLabelsCall ==
    /\ call.op = "idle"
    /\ \E masks \in Groupings(MaskLib, MaxMasks), check_overlaps \in BOOLEAN :
         LET ign == IgnoredDimensions(masks)
             mask_shape == CollapsedShape(ign)
         IN  call' = DirectCall("masks_to_labels", masks, check_overlaps,
                        masks_to_labels(masks, mask_shape, ign, check_overlaps,
                                        create_dataset(mask_shape, saver.dtype)))
    /\ UNCHANGED <<saver, store, history>>

\* stack_masks on an array the caller has created with one slice per ROI.
StackMasksCall ==
    /\ call.op = "idle"
    /\ \E masks \in Groupings(MaskLib, MaxMasks), check_overlaps \in BOOLEAN :
         LET ign == IgnoredDimensions(masks)
             mask_shape == CollapsedShape(ign)
         IN  call' = DirectCall("stack_masks", masks, check_overlaps,
                        stack_masks(masks, mask_shape,
                                    create_dataset(<<Len(masks)>> \o mask_shape,
                                                   saver.dtype),
                                    ign, check_overlaps))
    /\ UNCHANGED <<saver, store, history>>

NextCompose == MasksToLabelsCall \/ StackMasksCall

Spec == InitCompose /\ [][NextCompose]_vars


\* ------------------------------------------------- a sequence of save calls
MaxSaves == 2

Styles == {"labeled", "split", "6d"}

\* One ROI; one ROI whose two masks meet at pixel (1,1); two ROIs, the second
\* broadcast over Z onto the plane of the first; a mask that declares T, C
\* and Z.
SaveGroupings ==
    {<<<<MaskP(None, None, None)>>>>,
     <<<<MaskP(None, None, None), MaskQ(None, None, None)>>>>,
     <<<<MaskP(None, None, LastZ)>>, <<MaskQ(None, None, None)>>>>,
     <<<<MaskP(LastT, LastC, LastZ)>>>>}

SaveNames == {"a", "b"}

InitSave ==
    /\ saver \in [dtype : MASK_DTYPE_SIZE, style : Styles, linkable : BOOLEAN]
    /\ store = EmptyStore
    /\ call = [op |-> "idle"]
    /\ history = <<>>

\* saver.save(masks, name) on the group as the earlier calls left it.
Save ==
    /\ Len(history) < MaxSaves
    /\ \E masks \in SaveGroupings, name \in SaveNames :
         \E r \in {save(saver, store, masks, name)} :
             /\ store' = r.store
             /\ call' = [op |-> "save", masks |-> masks, name |-> name,
                         err |-> r.err, err_count |-> r.err_count,
                         ignored_dimensions |-> r.ignored_dimensions,
                         created |-> r.created]
             /\ history' = Append(history, [name |-> name, err |-> r.err,
                                            created |-> r.created])
    /\ UNCHANGED saver

SpecSave == InitSave /\ [][Save]_vars

\* ------------------------------------------------- image_masks_to_zarr runs
MaxRois == 3
MaxLines == 3

Rectangle == [type |-> "RectangleI"]

\* ROI 1 (a rectangle and mask P), ROI 2 (mask Q, which meets P), ROI 4 (no
\* mask at all) and ROI 5 (P and Q, which meet inside the ROI).
RoiLib ==
    {[id |-> 1, shapes |-> <<Rectangle, MaskP(None, None, None)>>],
     [id |-> 2, shapes |-> <<MaskQ(None, None, None)>>],
     [id |-> 4, shapes |-> <<Rectangle>>],
     [id |-> 5, shapes |-> <<MaskP(None, None, None), MaskQ(None, None, None)>>]}

\* Lists of distinct ROIs, at most n of them.
RoiLists(n) ==
    UNION {{l \in [1..k -> RoiLib] : \A i, j \in 1..k : i # j => l[i] # l[j]}
              : k \in 0..n}

\* Lines of a label map file, split at the commas: three good ones and one of
\* each malformed kind (a missing field, a ROI id that is no number, the id
\* of a ROI that has no masks).
LineLib ==
    {<<"0", "a", "1">>, <<"0", "b", "2">>, <<"0", "a", "2">>,
     <<"0", "a">>, <<"0", "c", "x">>, <<"0", "c", "4">>}

LineSeqs(n) == UNION {[1..k -> LineLib] : k \in 0..n}

MapRois ==
    <<[id |-> 1, shapes |-> <<Rectangle, MaskP(None, None, None)>>],
      [id |-> 2, shapes |-> <<MaskQ(None, None, None)>>],
      [id |-> 4, shapes |-> <<Rectangle>>]>>

BitTexts == {"1", "8", "64"}

Args(style, label_bits, label_map, lines, source_ok) ==
    [style |-> style, label_bits |-> label_bits, label_map |-> label_map,
     lines |-> lines, label_name |-> "0", source_ok |-> source_ok]

\* The runs considered: any list of ROIs without a label map, and the ROIs
\* 1, 2 and 4 with any label map file.
DriverInputs ==
    {[rois |-> rois, args |-> Args(style, bits, FALSE, <<>>, ok)] :
        rois \in RoiLists(MaxRois), style \in Styles, bits \in BitTexts,
        ok \in BOOLEAN}
    \cup
    {[rois |-> MapRois, args |-> Args(style, bits, TRUE, lines, TRUE)] :
        style \in {"labeled", "6d"}, bits \in BitTexts, lines \in LineSeqs(MaxLines)}

NoSaver == [dtype |-> None, style |-> "none", linkable |-> FALSE]

InitDriver ==
    /\ saver = NoSaver
    /\ store = EmptyStore
    /\ call = [op |-> "idle"]
    /\ history = <<>>

\* One run of image_masks_to_zarr on a fresh zarr file.
ImageMasksToZarr ==
    /\ call.op = "idle"
    /\ \E in \in DriverInputs :
         \E r \in {image_masks_to_zarr(in.rois, in.args, store)} :
         \E masks \in {collect_masks(in.rois)} :
             /\ store' = r.store
             /\ call' = [op |-> "image_masks_to_zarr", rois |-> in.rois,
                         args |-> in.args, masks |-> masks,
                         plan |-> IF masks = <<>> THEN <<>>
                                  ELSE groupings_to_save(masks, in.args),
                         saves |-> r.saves, err |-> r.err]
             /\ history' = [i \in DOMAIN r.saves |->
                              [name |-> r.saves[i].name, err |-> r.saves[i].err,
                               created |-> r.saves[i].name \in DOMAIN r.saves[i].arrays]]
             /\ saver' = IF masks = <<>> THEN NoSaver
                         ELSE [dtype |-> select_dtype(in.args),
                               style |-> in.args.style,
                               linkable |-> in.args.source_ok]

SpecDriver == InitDriver /\ [][ImageMasksToZarr]_vars

\* ============================================================== properties
\* What the masks denote, stated without the compositing code: the planes a
\* mask stands for after broadcasting, and the pixels its bits set.
RefAxis(ign, d, d_value, d_size) ==
    IF d \in ign THEN {0}
    ELSE IF d_value # None THEN {d_value}
    ELSE 0..(d_size - 1)

RefPlanes(mask, ign, shape) ==
    RefAxis(ign, "T", mask.theT, shape[1])
        \X RefAxis(ign, "C", mask.theC, shape[2])
        \X RefAxis(ign, "Z", mask.theZ, shape[3])

RefBit(mask, p) ==
    /\ InRect(p, mask)
    /\ LET k == (p[1] - mask.y) * mask.width + (p[2] - mask.x)
       IN  /\ k < 8 * Len(mask.bytes)
           /\ (mask.bytes[(k \div 8) + 1] \div Pow2(7 - (k % 8))) % 2 = 1

Pixels == (0..(SizeY - 1)) \X (0..(SizeX - 1))

Positions(masks) == UNION {{<<r, m>> : m \in DOMAIN masks[r]} : r \in DOMAIN masks}

MaskAt(masks, pos) == masks[pos[1]][pos[2]]

\* The masks of ROI r (1-based) that cover pixel p of plane key.
Covering(masks, r, ign, shape, key, p) ==
    {m \in DOMAIN masks[r] :
        key \in RefPlanes(masks[r][m], ign, shape) /\ RefBit(masks[r][m], p)}

\* A buffer of at least width*height bits, as the data model requires.
ShortBuffer(mask) == 8 * Len(mask.bytes) < mask.width * mask.height

WellFormed(masks) == \A pos \in Positions(masks) : ~ShortBuffer(MaskAt(masks, pos))

\* No two masks (of one ROI or of two) set the same pixel of the same plane.
NonOverlapping(masks, ign, shape) ==
    \A a \in Positions(masks), b \in Positions(masks) :
        a # b =>
            \A key \in RefPlanes(MaskAt(masks, a), ign, shape)
                          \cap RefPlanes(MaskAt(masks, b), ign, shape) :
                \A p \in Pixels :
                    ~(RefBit(MaskAt(masks, a), p) /\ RefBit(MaskAt(masks, b), p))

IsLabelsCall == call.op = "masks_to_labels"
IsStackCall == call.op = "stack_masks"

\* The denoted label image: value k where a mask of ROI k covers, 0 elsewhere.
IsLabelImage(arr, masks, ign, shape) ==
    \A key \in DOMAIN arr.data : \A p \in Pixels :
        /\ arr.data[key][p] \in 0..Len(masks)
        /\ \A k \in 1..Len(masks) :
              arr.data[key][p] = k <=> Covering(masks, k, ign, shape, key, p) # {}

RECURSIVE TotalPlanes(_, _, _, _)
TotalPlanes(masks, todo, ign, shape) ==
    IF todo = {} THEN 0
    ELSE LET pos == CHOOSE x \in todo : TRUE
         IN  Cardinality(RefPlanes(MaskAt(masks, pos), ign, shape))
                + TotalPlanes(masks, todo \ {pos}, ign, shape)

IsOverlapAbort == IsLabelsCall /\ call.run.err = "OverlapError"

\* C3 as stated: at the overlap error of the ROI at position k the array is
\* populated only by the ROIs before k (err_count = k - 1 of them).
C3_Original ==
    IsOverlapAbort =>
        IsLabelImage(call.run.arr, SubSeq(call.masks, 1, call.run.err_count),
                     call.ignored_dimensions, call.mask_shape)

\* C3 amended: the error names the first ROI k with a mask that meets an
\* earlier plane; the ROIs before k are in the array in full, the array holds
\* nothing but ids 1..k each on pixels its ROI covers (never a sum), ROI k is
\* there with the planes added before the offending one, and fewer additions
\* were made than ROIs 1..k need.
C3_OverlapAbortLeavesPrefix ==
    IsOverlapAbort =>
        LET c == call.run.err_count
            ign == call.ignored_dimensions
            shape == call.mask_shape
            arr == call.run.arr
        IN  /\ call.check_overlaps
            /\ c \in 0..(Len(call.masks) - 1)
            /\ NonOverlapping(SubSeq(call.masks, 1, c), ign, shape)
            /\ ~NonOverlapping(SubSeq(call.masks, 1, c + 1), ign, shape)
            /\ \A key \in DOMAIN arr.data : \A p \in Pixels :
                  /\ arr.data[key][p] \in 0..(c + 1)
                  /\ arr.data[key][p] # 0 =>
                        Covering(call.masks, arr.data[key][p], ign, shape, key, p) # {}
                  /\ \A k \in 1..c :
                        Covering(call.masks, k, ign, shape, key, p) # {}
                            => arr.data[key][p] = k
            /\ Len(call.run.writes)
                  < TotalPlanes(call.masks, Positions(SubSeq(call.masks, 1, c + 1)),
                                ign, shape)
            /\ "color" \notin arr.attrs

\* C3 witness: the second ROI is refused on a later plane of its broadcast,
\* after an earlier plane of it was added.
C3_Witness ==
    /\ IsOverlapAbort
    /\ call.run.err_count = 1
    /\ \E key \in DOMAIN call.run.arr.data : \E p \in Pixels :
          call.run.arr.data[key][p] = 2

IsFinishedCall == (IsLabelsCall \/ IsStackCall) /\ call.run.err = NoErr

\* How often plane `key` was added to for the mask at position pos.
TimesWritten(writes, pos, key) ==
    Cardinality({i \in DOMAIN writes : writes[i] = <<pos[1] - 1, pos[2], key>>})

\* The mask at pos was taken through all its planes: the call ran to its end,
\* or went on to add a later mask.
MaskCompleted(pos) ==
    \/ call.run.err = NoErr
    \/ \E i \in DOMAIN call.run.writes :
          \/ call.run.writes[i][1] > pos[1] - 1
          \/ (call.run.writes[i][1] = pos[1] - 1 /\ call.run.writes[i][2] > pos[2])

\* C8: every mask is added only to planes of the product of its three axis
\* lists ([0] on a collapsed axis, [value] for a declared coordinate, every
\* index of the axis otherwise), to none of them twice, and once to each of
\* them when the call gets through the mask.
C8_PlanesAreTheProduct ==
    (IsLabelsCall \/ IsStackCall) =>
        /\ \A pos \in Positions(call.masks) :
              \A key \in IndexTuples(call.mask_shape, 3) :
                 LET n == TimesWritten(call.run.writes, pos, key)
                     in_product == key \in RefPlanes(MaskAt(call.masks, pos),
                                        call.ignored_dimensions, call.mask_shape)
                 IN  /\ n <= (IF in_product THEN 1 ELSE 0)
                     /\ MaskCompleted(pos) => n = (IF in_product THEN 1 ELSE 0)
        /\ \A i \in DOMAIN call.run.writes :
              call.run.writes[i][3] \in IndexTuples(call.mask_shape, 3)
        /\ call.run.err = NoErr =>
              Len(call.run.writes)
                 = TotalPlanes(call.masks, Positions(call.masks),
                               call.ignored_dimensions, call.mask_shape)

\* C8 witness: a finished masks_to_labels call in which a mask without a Z
\* went to every plane of a Z axis that another mask kept from collapsing.
C8_Witness ==
    /\ IsFinishedCall
    /\ IsLabelsCall
    /\ "Z" \notin call.ignored_dimensions
    /\ \E pos \in Positions(call.masks) :
          /\ MaskAt(call.masks, pos).theZ = None
          /\ Cardinality({i \in DOMAIN call.run.writes :
                            /\ call.run.writes[i][1] = pos[1] - 1
                            /\ call.run.writes[i][2] = pos[2]}) = SizeZ

HasShortBuffer == (IsLabelsCall \/ IsStackCall) /\ ~WellFormed(call.masks)

\* C9 as stated: a mask whose buffer holds fewer than width*height bits is
\* decoded without an error.
C9_Original == HasShortBuffer => call.run.err # "ValueError"

\* C9 amended: decoding such a mask raises (reshape cannot form (h, w)), so a
\* grouping that holds one never finishes; the error comes from the first
\* short mask of the ROI it names, and neither that mask nor a later one is
\* added to the array.
C9_ShortBufferRaises ==
    /\ HasShortBuffer => call.run.err # NoErr
    /\ ((IsLabelsCall \/ IsStackCall) /\ call.run.err = "ValueError") =>
          LET c == call.run.err_count
              short == {m \in DOMAIN call.masks[c + 1] :
                           ShortBuffer(call.masks[c + 1][m])}
          IN  /\ short # {}
              /\ \A i \in DOMAIN call.run.writes :
                    \/ call.run.writes[i][1] < c
                    \/ /\ call.run.writes[i][1] = c
                       /\ \A m \in short : call.run.writes[i][2] < m

\* C9 witness: a short mask met after an earlier mask was added.
C9_Witness ==
    /\ HasShortBuffer
    /\ call.run.err = "ValueError"
    /\ call.run.writes # <<>>

\* The masks of group g (0-based) that cover pixel p of plane key.
CoverCount(g, key, p) ==
    Cardinality(Covering(call.masks, g + 1, call.ignored_dimensions,
                         call.mask_shape, key, p))

IsUncheckedStack == IsStackCall /\ ~call.check_overlaps /\ call.run.err = NoErr

\* C10 as stated: with overlap checking off, slice g holds at every pixel the
\* number of masks of group g that cover it.
C10_Original ==
    IsUncheckedStack =>
        \A g \in 0..(Len(call.masks) - 1) :
            \A key \in IndexTuples(call.mask_shape, 3) : \A p \in Pixels :
                call.run.arr.data[<<g>> \o key][p] = CoverCount(g, key, p)

\* C10 amended: that holds for the signed integer dtypes; a boolean array
\* holds 1 where at least one mask of group g covers (the addition saturates).
C10_StackCountsCoverage ==
    IsUncheckedStack =>
        \A g \in 0..(Len(call.masks) - 1) :
            \A key \in IndexTuples(call.mask_shape, 3) : \A p \in Pixels :
                call.run.arr.data[<<g>> \o key][p]
                    = IF saver.dtype = 1
                      THEN (IF CoverCount(g, key, p) > 0 THEN 1 ELSE 0)
                      ELSE CoverCount(g, key, p)

\* C10 witness: two masks of one group meet and the pixel holds 2.
C10_Witness ==
    /\ IsUncheckedStack
    /\ \E g \in 0..(Len(call.masks) - 1) :
          \E key \in IndexTuples(call.mask_shape, 3) : \E p \in Pixels :
              /\ CoverCount(g, key, p) = 2
              /\ call.run.arr.data[<<g>> \o key][p] = 2

\* ------------------------------------------------------------ save calls
IsSaveCall == call.op = "save"

\* The shape save is meant to create for a grouping.
ExpectedShape(masks, style) ==
    IF style = "6d"
    THEN <<Len(masks)>> \o CollapsedShape(IgnoredDimensions(masks))
    ELSE CollapsedShape(IgnoredDimensions(masks))

\* C2 as stated: for every grouping, whatever its collapsed axes (none at all
\* included), save creates the array with the image shape, the collapsed axes
\* at extent 1, prefixed by the number of ROIs in style 6d.
C2_ShapeOfCreatedArray ==
    (IsSaveCall /\ saver.linkable) =>
        /\ call.created
        /\ call.name \in DOMAIN store.arrays
        /\ store.arrays[call.name].shape = ExpectedShape(call.masks, saver.style)

\* C2, the part the code keeps: when at least one axis is collapsed the array
\* is created with the expected shape.
C2_ShapeWhenSomeAxisCollapsed ==
    (IsSaveCall /\ saver.linkable /\ IgnoredDimensions(call.masks) # {}) =>
        /\ call.created
        /\ call.name \in DOMAIN store.arrays
        /\ store.arrays[call.name].shape = ExpectedShape(call.masks, saver.style)

\* Two masks of one ROI that set the same pixel of the same plane.
SameGroupOverlap(masks) ==
    LET ign == IgnoredDimensions(masks)
        shape == CollapsedShape(ign)
    IN  \E r \in DOMAIN masks : \E key \in IndexTuples(shape, 3) : \E p \in Pixels :
            Cardinality(Covering(masks, r, ign, shape, key, p)) > 1

\* C4 as stated: in style 6d save runs stack_masks with the overlap guard, and
\* two masks of one group slice that meet end the write with an overlap error.
C4_StackGuardRaises ==
    (IsSaveCall /\ saver.style = "6d" /\ call.created /\ SameGroupOverlap(call.masks))
        => call.err = "OverlapError"

\* The elements of a sequence in order of first occurrence, each once.
RECURSIVE FirstOccurrences(_)
FirstOccurrences(seq) ==
    IF seq = <<>> THEN <<>>
    ELSE LET front == FirstOccurrences(SubSeq(seq, 1, Len(seq) - 1))
             last == seq[Len(seq)]
         IN  IF \E i \in DOMAIN front : front[i] = last THEN front
             ELSE Append(front, last)

IsCompleted(h) == h.err = NoErr
IsCreated(h) == h.created

NamesOf(calls) == [i \in DOMAIN calls |-> calls[i].name]

\* C6 as stated: after any sequence of saves (aborted ones included) the
\* labels attribute lists every array name created in the group, each once,
\* in order of first write.
C6_Original ==
    (\A i \in DOMAIN history : history[i].err \in {NoErr, "OverlapError"})
        => store.labels = FirstOccurrences(NamesOf(SelectSeq(history, IsCreated)))

\* C6 amended: the labels attribute lists the names whose save ran to its end,
\* each once, in order of first completed save (the attribute is absent until
\* a save completes); every listed name is an array of the group, but an
\* array whose saves were all aborted after its creation is not listed.
C6_LabelsListCompletedSaves ==
    /\ store.labels = FirstOccurrences(NamesOf(SelectSeq(history, IsCompleted)))
    /\ store.has_labels <=> (\E i \in DOMAIN history : IsCompleted(history[i]))
    /\ \A i \in DOMAIN store.labels : store.labels[i] \in DOMAIN store.arrays
    /\ \A i \in DOMAIN history :
          history[i].created => history[i].name \in DOMAIN store.arrays

\* C6 witness: a save aborted by the overlap guard after its array was
\* created, and a completed save of another name; only the latter is listed.
C6_Witness ==
    /\ Len(history) = 2
    /\ history[1].err = "OverlapError" /\ history[1].created
    /\ history[2].err = NoErr
    /\ history[2].name # history[1].name
    /\ store.labels = <<history[2].name>>
    /\ history[1].name \in DOMAIN store.arrays

\* ------------------------------------------------- image_masks_to_zarr runs
IsDriverRun == call.op = "image_masks_to_zarr"

\* A malformed line: not three fields, or a third field that is not the id of
\* a ROI with masks.
BadLine(line, masks) ==
    \/ Len(line) # 3
    \/ line[3] \notin {ToString(masks[i].id) : i \in DOMAIN masks}

BadLines(lines, masks) == {i \in DOMAIN lines : BadLine(lines[i], masks)}

HasBadLine ==
    /\ IsDriverRun
    /\ call.args.label_map
    /\ BadLines(call.args.lines, call.masks) # {}

\* The map that well-formed lines denote: the names in order of first
\* appearance, each with the ROIs of its lines in line order.
RefShapes(masks, text) == masks[CHOOSE i \in DOMAIN masks : ToString(masks[i].id) = text].shapes

RECURSIVE RefValues(_, _, _)
RefValues(lines, name, masks) ==
    IF lines = <<>> THEN <<>>
    ELSE (IF Head(lines)[2] = name THEN <<RefShapes(masks, Head(lines)[3])>> ELSE <<>>)
            \o RefValues(Tail(lines), name, masks)

RefMap(lines, masks) ==
    LET names == FirstOccurrences([i \in DOMAIN lines |-> lines[i][2]])
    IN  [i \in DOMAIN names |->
            [name |-> names[i], values |-> RefValues(lines, names[i], masks)]]

\* C5 as stated: a malformed line discards the whole map: no save is made and
\* no array is created.
C5_Original ==
    HasBadLine => (call.saves = <<>> /\ store.arrays = <<>>)

\* C5 amended: parsing stops at the first malformed line; the entries of the
\* lines before it are kept (later lines are not read) and are saved in order
\* of first appearance; a bad line that has its three fields has entered its
\* name too, with no ROI when the name is new, and that entry comes last.
C5_BadLineKeepsEarlierEntries ==
    HasBadLine =>
        LET lines == call.args.lines
            k == CHOOSE i \in BadLines(lines, call.masks) :
                    \A j \in BadLines(lines, call.masks) : i <= j
            ref == RefMap(SubSeq(lines, 1, k - 1), call.masks)
            named == \E i \in DOMAIN ref : ref[i].name = lines[k][2]
        IN  /\ call.plan =
                  IF Len(lines[k]) = 3 /\ ~named
                  THEN Append(ref, [name |-> lines[k][2], values |-> <<>>])
                  ELSE ref
            /\ call.plan # <<>> => call.saves # <<>>
            /\ \A i \in DOMAIN call.saves : call.saves[i].name = call.plan[i].name
            /\ \A i \in DOMAIN call.saves :
                  call.saves[i].err = NoErr => call.saves[i].name \in DOMAIN store.arrays

\* C5 witness: a map whose second line is malformed; the entry of its first
\* line was saved and its array is in the group.
C5_Witness ==
    /\ HasBadLine
    /\ 1 \notin BadLines(call.args.lines, call.masks)
    /\ call.saves # <<>>
    /\ call.saves[1].err = NoErr
    /\ call.saves[1].name = call.args.lines[1][2]
    /\ call.saves[1].name \in DOMAIN store.arrays

\* Grouping j, completed earlier in the run, is still as its save left it.
StaysCommitted(j) ==
    LET name == call.saves[j].name
    IN  /\ call.saves[j].err = NoErr
        /\ name \in DOMAIN store.arrays
        /\ store.arrays[name] = call.saves[j].arrays[name]
        /\ "image" \in store.arrays[name].attrs
        /\ \E i \in DOMAIN store.labels : store.labels[i] = name

SavesFollowPlan ==
    /\ Len(call.saves) <= Len(call.plan)
    /\ \A i \in DOMAIN call.saves : call.saves[i].name = call.plan[i].name

\* C7 as stated: an error while writing grouping i aborts that grouping only:
\* the groupings before it stay committed and the groupings after it are
\* still written.
C7_Original ==
    IsDriverRun =>
        /\ \A j \in DOMAIN call.saves : call.saves[j].err = NoErr => StaysCommitted(j)
        /\ Len(call.saves) = Len(call.plan)

\* C7 amended: an error raised by the save of grouping i ends the run: the
\* groupings before i stay committed and unchanged, grouping i is the last one
\* attempted and the groupings after it are never written.
C7_ErrorEndsTheRun ==
    IsDriverRun =>
        /\ SavesFollowPlan
        /\ (\E i \in DOMAIN call.saves : call.saves[i].err # NoErr)
              <=> (call.err # NoErr /\ call.saves # <<>>)
        /\ call.err = NoErr => Len(call.saves) = Len(call.plan)
        /\ (call.err # NoErr /\ call.saves # <<>>) =>
              LET i == Len(call.saves)
              IN  /\ call.saves[i].err = call.err
                  /\ \A j \in 1..(i - 1) : StaysCommitted(j)
                  /\ \A j \in (i + 1)..Len(call.plan) :
                        call.plan[j].name \notin DOMAIN store.arrays

\* C7 witness: the second of three groupings raises; the first is committed,
\* the third is never written.
C7_Witness ==
    /\ IsDriverRun
    /\ call.err # NoErr
    /\ Len(call.plan) = 3
    /\ Len(call.saves) = 2
    /\ StaysCommitted(1)
    /\ call.plan[3].name \notin DOMAIN store.arrays

====
